---------------------------- MODULE Spec2Model ----------------------------
(***************************************************************************)
(* mcuxeq: send one command line to a microcontroller console over a      *)
(* serial device, wait for the command echo, print the response lines     *)
(* until the prompt reappears.  Model of src/mcuxeq.c.                     *)
(*                                                                         *)
(* The program is sequential.  Its state is the option globals, the       *)
(* static buffers of ser_getc and ser_readline, the deadline tv, the two  *)
(* output streams and the position in main.  The environment (the kernel, *)
(* the device, the clock) is the nondeterminism of the actions.            *)
(***************************************************************************)
EXTENDS Integers, Sequences, FiniteSets, TLC

(***************************************************************************)
(* Bytes.  The device is in raw mode, so any byte value may arrive; the    *)
(* model keeps one byte of every class the code distinguishes.            *)
(***************************************************************************)
NUL == 0
LF == 10
CR == 13
SP == 32
GT == 62
LA == 97

Byte == {NUL, LF, CR, SP, GT, LA}

(***************************************************************************)
(* Sizes of the source, scaled down so that the buffers fill up within    *)
(* the bounds of the model (BUF_SIZE is 64 and LINE_SIZE 1024 in the      *)
(* source; every guard below is written in terms of the names).           *)
(***************************************************************************)
BUF_SIZE == 2
LINE_SIZE == 4
RETRY_MS == 200

(***************************************************************************)
(* Bounds of the model.                                                    *)
(***************************************************************************)
\* the positive timeout budget explored (-t <ms>), besides 0 and -1
TimeoutMs == 300
\* how long a poll() may block before data arrives, in ms
WaitMs == 200
\* the clock at program start, in microseconds since the epoch
Clock0 == 900000
\* poll() calls of one run that block for WaitMs
MaxWaits == 3
\* bytes the device delivers in one run (two more in the runs of InitLong)
MaxRx == 5
\* highest debug level explored
MaxDebug == 1
\* descriptors the process may hold on the device (RLIMIT_NOFILE)
MaxOpenFiles == 2
\* how long the runs of the endless device are followed in full, in ms
HorizonMs == 1000
\* busy retries explored in a whole run, and in the acquisition alone
MaxRetries == 1
MaxRetriesAcq == 4
\* the largest int.  It is 2^31 - 1 in the build; the model's int has 24
\* bits, so that the products of timeout_init stay within the integers the
\* model checker computes with.  The budgets explored are placed around
\* INT_MAX / 1000, where opt_timeout * 1000 stops fitting.
INT_MAX == 8388607
\* clock readings explored for one budget, ClockStepUs apart
MaxTicks == 32
ClockStepUs == 31250

Min(S) == CHOOSE x \in S : \A y \in S : x <= y

Last(s) == s[Len(s)]

(***************************************************************************)
(* C strings: a char buffer read by regexec, strstr and printf("%s") ends  *)
(* at its first NUL byte.                                                  *)
(***************************************************************************)
CStr(s) ==
    LET nuls == {i \in 1..Len(s) : s[i] = NUL}
    IN  IF nuls = {} THEN s ELSE SubSeq(s, 1, Min(nuls) - 1)

\* strstr(haystack, needle) # NULL
strstr(haystack, needle) ==
    LET h == CStr(haystack)
        n == CStr(needle)
    IN  \E i \in 0..(Len(h) - Len(n)) : SubSeq(h, i + 1, i + Len(n)) = n

(***************************************************************************)
(* POSIX regular expressions, as far as the prompt patterns of the model   *)
(* need them: an optional ^, a sequence of bracket expressions or dots,    *)
(* each optionally starred, an optional $.  regcomp is called with         *)
(* REG_NOSUB only, so a dot and a non-matching list match a newline and $  *)
(* matches at the end of the string only.                                  *)
(***************************************************************************)
Alnum == (48..57) \cup (65..90) \cup (97..122)
Dot == (1..255)

\* DEFAULT_PROMPT "^[[:alnum:]]*[#$>] $"
DEFAULT_PROMPT ==
    [bol |-> TRUE,
     items |-> << [set |-> Alnum, star |-> TRUE],
                  [set |-> {35, 36, GT}, star |-> FALSE],
                  [set |-> {SP}, star |-> FALSE] >>,
     eol |-> TRUE]

\* a prompt given with -p: ">." (a '>' followed by any character)
GT_DOT_PROMPT ==
    [bol |-> FALSE,
     items |-> << [set |-> {GT}, star |-> FALSE],
                  [set |-> Dot, star |-> FALSE] >>,
     eol |-> FALSE]

Prompts == {DEFAULT_PROMPT, GT_DOT_PROMPT}

RECURSIVE MatchHere(_, _, _, _)
MatchHere(preg, k, s, i) ==
    IF k > Len(preg.items)
    THEN (~preg.eol) \/ i = Len(s) + 1
    ELSE LET it == preg.items[k]
             one == i <= Len(s) /\ s[i] \in it.set
         IN  IF it.star
             THEN MatchHere(preg, k + 1, s, i)
                  \/ (one /\ MatchHere(preg, k, s, i + 1))
             ELSE one /\ MatchHere(preg, k + 1, s, i + 1)

\* regexec(&regex_prompt, string, 0, NULL, 0): 0 on a match, REG_NOMATCH (1) otherwise
regexec(preg, string) ==
    LET s == CStr(string)
        starts == IF preg.bol THEN {1} ELSE 1..(Len(s) + 1)
    IN  IF \E i \in starts : MatchHere(preg, 1, s, i) THEN 0 ELSE 1

(***************************************************************************)
(* join_words: the words joined by single spaces, a newline appended; len  *)
(* is the sum of strlen(word) + 1.                                         *)
(***************************************************************************)
RECURSIVE JoinFrom(_, _)
JoinFrom(words, i) ==
    IF i > Len(words) THEN << >>
    ELSE (IF i > 1 THEN <<SP>> ELSE << >>) \o words[i] \o JoinFrom(words, i + 1)

RECURSIVE SumLen(_, _)
SumLen(words, i) ==
    IF i > Len(words) THEN 0 ELSE Len(words[i]) + 1 + SumLen(words, i + 1)

join_words(words) ==
    [line |-> JoinFrom(words, 1) \o <<LF>>, len |-> SumLen(words, 1)]

\* the command lines explored: "a" and ">"
Commands == { << <<LA>> >>, << <<GT>> >> }

VARIABLES
    opt_timeout,   \* -t <ms>
    opt_debug,     \* number of -d
    opt_force,     \* -f
    regex_prompt,  \* the compiled prompt
    cmd,           \* join_words' line
    len,           \* join_words' len_out
    pc,            \* position in main: the call that is made next
    running,       \* FALSE once exit() was called
    exit_status,   \* the argument of exit(), as the shell sees it
    now,           \* the clock, in microseconds
    tv,            \* the deadline of the running phase
    cap_dropped,   \* CAP_SYS_ADMIN was dropped from the effective set
    errno,         \* errno of the last failed open/flock
    attempts,      \* open() calls made
    flocks,        \* flock() calls made
    nfds,          \* descriptors the process holds on the device
    retry_budget,  \* busy retries still explored
    tty,           \* "closed", "open" (left the open loop), "raw" (configured)
    written,       \* what write() returned (-2: not called)
    buf, pos, n,   \* ser_getc's static buffer, cursor and valid length
    rxcount,       \* bytes read from the device so far
    rx,            \* the bytes read() delivered, chunk after chunk
    got,           \* the bytes ser_getc returned, call after call
    device,        \* what the device of this run sends: the byte values, how many
                   \* bytes in all, how many of them after a wait (the run's bounds)
    line,          \* ser_readline's buffer up to its terminator (n bytes)
    call,          \* the bytes ser_getc returned to the running ser_readline call
    ret,           \* "none": ser_readline is running, "line", "NULL": it returned
    ignored,       \* the lines the echo loop ignored
    echo,          \* the bytes of the call that returned the echo line
    lines,         \* the lines ser_readline returned to the response loop
    out,           \* standard output
    err            \* standard error

vars == << opt_timeout, opt_debug, opt_force, regex_prompt, cmd, len, pc, running,
           exit_status, now, tv, cap_dropped, errno, attempts, flocks, nfds,
           retry_budget, tty, written, buf, pos, n, rxcount, rx, got, device, line,
           call, ret, ignored, echo, lines, out, err >>

cfgvars == << opt_timeout, opt_debug, opt_force, regex_prompt, cmd, len >>
acqvars == << cap_dropped, errno, attempts, flocks, nfds, retry_budget, tty >>
rdvars == << buf, pos, n, rxcount, rx >>
lnvars == << line, call, ret >>

(***************************************************************************)
(* Output.  pr_debug and the response lines are both printf, so both go    *)
(* to standard output; pr_err goes to standard error.                      *)
(***************************************************************************)
\* printf("%s", s)
Text(s) == [kind |-> "line", msg |-> "%s", text |-> CStr(s)]

Debug(msg, s) == [kind |-> "debug", msg |-> msg, text |-> s]

\* pr_debug(fmt, ...): { if (opt_debug) printf(fmt, ...); }
pr_debug(msg, s) == IF opt_debug # 0 THEN << Debug(msg, s) >> ELSE << >>

\* pr_err(...); exit(-1);
Die(msg) ==
    /\ err' = Append(err, msg)
    /\ running' = FALSE
    /\ exit_status' = 255

(***************************************************************************)
(* The clock.                                                              *)
(***************************************************************************)
\* C's integer division truncates toward zero
CQuot(a, b) == IF a >= 0 THEN a \div b ELSE -((-a) \div b)
CRem(a, b) == a - b * CQuot(a, b)

get_time == [tv_sec |-> now \div 1000000, tv_usec |-> now % 1000000]

\* the value of x converted to int (two's complement, as the build converts)
ToInt(x) == ((x + INT_MAX + 1) % (2 * (INT_MAX + 1))) - (INT_MAX + 1)

\* a * b in int arithmetic.  An overflow is undefined: the build either
\* multiplies in 32 bits and wraps, or, the product being added to a long,
\* multiplies in 64 bits.
IntMul(a, b) ==
    IF a * b = ToInt(a * b) THEN {a * b} ELSE {ToInt(a * b), a * b}

\* tv after tv->tv_usec += ms1000 following get_time(tv); tv_usec is a long,
\* the parameters of div() are ints
AddUsec(t, ms1000) ==
    LET usec == t.tv_usec + ms1000
        numer == ToInt(usec)
    IN  IF usec >= 1000000
        THEN [tv_sec |-> t.tv_sec + CQuot(numer, 1000000),
              tv_usec |-> CRem(numer, 1000000)]
        ELSE [tv_sec |-> t.tv_sec, tv_usec |-> usec]

\* the values timeout_init(&tv) may leave in tv, old being its value before
timeout_init(old) ==
    IF opt_timeout <= 0 THEN {old}
    ELSE {AddUsec(get_time, p) : p \in IntMul(opt_timeout, 1000)}

\* a bug timed_out could have: the microseconds are not compared
timed_out_seconds(deadline) ==
    IF opt_timeout <= 0 THEN FALSE
    ELSE get_time.tv_sec >= deadline.tv_sec

timed_out(deadline) ==
    IF opt_timeout <= 0 THEN FALSE
    ELSE LET t == get_time
         IN  t.tv_sec > deadline.tv_sec
             \/ (t.tv_sec = deadline.tv_sec /\ t.tv_usec > deadline.tv_usec)

(***************************************************************************)
(* The state at the call of ser_open: the options are parsed, the prompt   *)
(* is compiled, the command is joined.                                     *)
(***************************************************************************)
Start(timeouts, debugs, forces, prompts, commands, retries, dev) ==
    /\ opt_timeout \in timeouts
    /\ opt_debug \in debugs
    /\ opt_force \in forces
    /\ regex_prompt \in prompts
    /\ \E words \in commands :
          /\ cmd = join_words(words).line
          /\ len = join_words(words).len
    /\ pc = "ser_open"
    /\ running = TRUE
    /\ exit_status = 0
    /\ now = Clock0
    /\ tv = [tv_sec |-> 0, tv_usec |-> 0]
    /\ cap_dropped = FALSE
    /\ errno = "0"
    /\ attempts = 0
    /\ flocks = 0
    /\ nfds = 0
    /\ retry_budget = retries
    /\ tty = "closed"
    /\ written = -2
    /\ buf = << >>
    /\ pos = 0
    /\ n = 0
    /\ rxcount = 0
    /\ rx = << >>
    /\ got = << >>
    /\ device = dev
    /\ line = << >>
    /\ call = << >>
    /\ ret = "none"
    /\ ignored = << >>
    /\ echo = << >>
    /\ lines = << >>
    /\ out = << >>
    /\ err = << >>

Device(alphabet, bytes, waits) ==
    [alphabet |-> alphabet, bytes |-> bytes, waits |-> waits, endless |-> FALSE]

\* a device that never stops sending: a chunk of bytes every WaitMs
EndlessDevice(alphabet) ==
    [alphabet |-> alphabet, bytes |-> 0, waits |-> 0, endless |-> TRUE]

TextByte == {LF, SP, GT, LA}

(***************************************************************************)
(* The runs explored.  The options and what the device does are            *)
(* independent, so each family of runs varies some of them and keeps the   *)
(* others at their defaults:                                               *)
(*   InitBytes    any byte values, both prompts, no waiting;               *)
(*   InitLong     no CR and no space, two bytes more;                      *)
(*   InitTimed    every timeout budget, a device that makes poll block;    *)
(*   InitOptions  -d, -f, a busy device;                                   *)
(*   InitCommands both commands and both prompts.                          *)
(***************************************************************************)
InitBytes ==
    Start({-1}, {0}, {FALSE}, Prompts, {<< <<LA>> >>}, 0,
          Device(Byte, MaxRx, 0))

InitLong ==
    Start({-1}, {0}, {FALSE}, Prompts, {<< <<LA>> >>}, 0,
          Device(Byte \ {CR, SP}, MaxRx + 2, 0))

InitTimed ==
    Start({-1, 0, TimeoutMs}, {0}, {FALSE}, {DEFAULT_PROMPT}, {<< <<LA>> >>}, 0,
          Device(TextByte, MaxRx, MaxWaits))

InitOptions ==
    Start({TimeoutMs}, 0..MaxDebug, BOOLEAN, {DEFAULT_PROMPT}, {<< <<LA>> >>},
          MaxRetries, Device(TextByte, MaxRx, 0))

InitCommands ==
    Start({-1}, {0}, {FALSE}, Prompts, Commands, 0,
          Device(TextByte, MaxRx, 0))

Init == InitBytes \/ InitLong \/ InitTimed \/ InitOptions \/ InitCommands

(***************************************************************************)
(* ser_open, lines 147-155: the capability drop, the deadline.             *)
(***************************************************************************)
ser_open_begin ==
    /\ running /\ pc = "ser_open"
    /\ cap_dropped' = ~opt_force
    /\ out' = out \o pr_debug("Opening", << >>)
    /\ tv' \in timeout_init(tv)
    /\ pc' = "open"
    /\ UNCHANGED << cfgvars, got, running, exit_status, now, errno, attempts, flocks,
                    nfds, retry_budget, tty, written, rdvars, device, lnvars, ignored, echo, lines, err >>

\* what open() may report: the device's own answers, unless the process is
\* out of descriptors, which the kernel checks first
OpenResults == IF nfds >= MaxOpenFiles THEN {"EMFILE"} ELSE {"0", "EBUSY", "ENOENT"}

\* what flock(fd, LOCK_EX | LOCK_NB) may report (EWOULDBLOCK is EAGAIN)
FlockResults == {"0", "EAGAIN", "ENOLCK"}

\* a bug NeedLock could have: -f does not skip the lock
NeedLockAlways == TRUE

\* the lock is taken only without -f
NeedLock == ~opt_force

\* a bug NotBusy could have: a failed lock is always retried
NotBusyOrLock(e) == e # "EBUSY" /\ e # "EAGAIN" /\ e # "ENOLCK"

\* errno != EBUSY && errno != EAGAIN
NotBusy(e) == e # "EBUSY" /\ e # "EAGAIN"

(***************************************************************************)
(* One iteration of the loop of ser_open, lines 157-167, for open()       *)
(* reporting oe and flock() reporting fe.                                  *)
(***************************************************************************)
open_once(oe, fe) ==
    LET opened == oe = "0"
        locking == opened /\ NeedLock
        e == IF ~opened THEN oe ELSE fe
    IN  /\ attempts' = attempts + 1
        /\ flocks' = IF locking THEN flocks + 1 ELSE flocks
        /\ nfds' = IF opened THEN nfds + 1 ELSE nfds
        /\ IF opened /\ (~locking \/ fe = "0")
           THEN /\ tty' = "open"
                /\ pc' = "config"
                /\ UNCHANGED << errno, out, err, running, exit_status >>
           ELSE /\ errno' = e
                /\ tty' = tty
                /\ IF NotBusy(e) \/ timed_out(tv)
                   THEN /\ Die("Failed to open")
                        /\ UNCHANGED << pc, out >>
                   ELSE /\ out' = out \o pr_debug("retrying", << >>)
                        /\ pc' = "usleep"
                        /\ UNCHANGED << err, running, exit_status >>

ser_open_loop ==
    /\ running /\ pc = "open"
    /\ \E oe \in OpenResults, fe \in FlockResults : open_once(oe, fe)
    /\ UNCHANGED << cfgvars, got, now, tv, cap_dropped, retry_budget, written, rdvars, device,
                    lnvars, ignored, echo, lines >>

\* usleep(RETRY_MS * 1000), line 168
ser_open_usleep ==
    /\ running /\ pc = "usleep"
    /\ retry_budget > 0
    /\ now' = now + RETRY_MS * 1000
    /\ retry_budget' = retry_budget - 1
    /\ pc' = "open"
    /\ UNCHANGED << cfgvars, got, running, exit_status, tv, cap_dropped, errno, attempts,
                    flocks, nfds, tty, written, rdvars, device, lnvars, ignored, echo, lines, out, err >>

(***************************************************************************)
(* ser_open, lines 171-194: exclusive mode, raw mode, flush.  r is the     *)
(* first call that fails, or "ok".                                         *)
(***************************************************************************)
ConfigResults == {"ok", "TIOCEXCL", "tcgetattr", "tcsetattr", "tcflush"}

ConfigError(r) ==
    CASE r = "TIOCEXCL" -> "Failed to put terminal in exclusive mode"
      [] r = "tcgetattr" -> "Failed to get terminal attributes"
      [] r = "tcsetattr" -> "Failed to enable raw mode"
      [] r = "tcflush" -> "Failed to flush"

ser_open_config ==
    /\ running /\ pc = "config"
    /\ \E r \in ConfigResults :
          IF r = "ok"
          THEN /\ tty' = "raw"
               /\ pc' = "write"
               /\ UNCHANGED << err, running, exit_status >>
          ELSE /\ Die(ConfigError(r))
               /\ UNCHANGED << tty, pc >>
    /\ UNCHANGED << cfgvars, got, now, tv, cap_dropped, errno, attempts, flocks, nfds,
                    retry_budget, written, rdvars, device, lnvars, ignored, echo, lines, out >>

(***************************************************************************)
(* main, lines 369-381: the command is written, the echo deadline is set   *)
(* and the first ser_readline call begins.                                 *)
(***************************************************************************)
\* a bug ShortWrite could have: a partial write is taken for a full one
ShortWriteNever(w) == FALSE

\* out < len, line 375
ShortWrite(w) == w < len

main_write ==
    /\ running /\ pc = "write"
    /\ \E w \in -1..len :
          /\ written' = w
          /\ IF w < 0
             THEN /\ Die("Write error")
                  /\ out' = out \o pr_debug("Sending command...", << >>)
                  /\ UNCHANGED << pc, tv >>
             ELSE IF ShortWrite(w)
             THEN /\ Die("Short write")
                  /\ out' = out \o pr_debug("Sending command...", << >>)
                  /\ UNCHANGED << pc, tv >>
             ELSE /\ out' = out \o pr_debug("Sending command...", << >>)
                              \o pr_debug("Waiting for command echo...", << >>)
                  /\ tv' \in timeout_init(tv)
                  /\ pc' = "echo"
                  /\ UNCHANGED << err, running, exit_status >>
    /\ UNCHANGED << cfgvars, got, now, acqvars, rdvars, device, lnvars, ignored, echo, lines >>

Reading == running /\ pc \in {"echo", "resp"} /\ ret = "none"

(***************************************************************************)
(* ser_getc, lines 205-238: the buffer is used up, poll and read.          *)
(***************************************************************************)
\* the runs of the endless device are explored up to the horizon; from then
\* on the device sends carriage returns only and the clock is not recorded
\* (ser_readline does not consult it while it skips carriage returns)
PastHorizon == device.endless /\ now >= Clock0 + HorizonMs * 1000

\* the byte values the device may send now
Sendable == IF PastHorizon THEN {CR} ELSE device.alphabet

\* what read(fd, buf, sizeof(buf)) may return
Chunks ==
    UNION { [1..k -> Sendable] : k \in 1..BUF_SIZE }

\* how long poll(&pfd, 1, opt_timeout) may block before the device is readable
PollWaits ==
    IF device.endless THEN {WaitMs}
    ELSE {d \in {0, WaitMs} : /\ opt_timeout < 0 \/ d = 0 \/ d < opt_timeout
                              /\ d = 0 \/ device.waits > 0}

Waited(d) ==
    IF d = 0 \/ device.endless THEN device ELSE [device EXCEPT !.waits = @ - 1]

\* the clock after poll blocked for d ms
Later(d) == IF PastHorizon THEN now ELSE now + d * 1000

\* a history of the run: not kept for the endless device
Kept(old, new) == IF device.endless THEN old ELSE new

\* a bug NeedRefill could have: the last byte of the buffer is not waited for
NeedRefillEarly == pos + 1 >= n

\* pos >= n, line 205
NeedRefill == pos >= n

PollTrace == pr_debug("poll() returned", << >>)

ReadTrace(chunk) ==
    pr_debug("Read bytes", << >>)
      \o (IF opt_debug > 1 THEN << Debug("hexdump", chunk) >> ELSE << >>)

\* poll() < 0
ser_getc_poll_error ==
    /\ Reading /\ NeedRefill
    /\ out' = out \o PollTrace
    /\ Die("Poll error")
    /\ UNCHANGED << cfgvars, got, pc, now, tv, acqvars, written, rdvars, device, lnvars, ignored, echo, lines >>

\* poll() = 0: nothing to read within opt_timeout ms (at once, for 0)
ser_getc_timeout ==
    /\ Reading /\ NeedRefill
    /\ opt_timeout >= 0
    /\ now' = now + opt_timeout * 1000
    /\ out' = out \o PollTrace
    /\ Die("Timeout")
    /\ UNCHANGED << cfgvars, got, pc, tv, acqvars, written, rdvars, device, lnvars, ignored, echo, lines >>

\* poll() > 0 and read() returns 0 or fails
ser_getc_read_fails ==
    /\ Reading /\ NeedRefill
    /\ \E d \in PollWaits :
          /\ now' = Later(d)
          /\ device' = Waited(d)
    /\ out' = out \o PollTrace
    /\ \E msg \in {"No data", "Read error"} : Die(msg)
    /\ UNCHANGED << cfgvars, got, pc, tv, acqvars, written, rdvars, lnvars, ignored, echo, lines >>

\* poll() > 0 and read() returns a chunk
ser_getc_refill ==
    /\ Reading /\ NeedRefill
    /\ \E d \in PollWaits :
          /\ now' = Later(d)
          /\ device' = Waited(d)
    /\ \E chunk \in Chunks :
          /\ device.endless \/ rxcount + Len(chunk) <= device.bytes
          /\ buf' = chunk
          /\ n' = Len(chunk)
          /\ pos' = 0
          /\ rxcount' = Kept(rxcount, rxcount + Len(chunk))
          /\ rx' = Kept(rx, rx \o chunk)
          /\ out' = out \o PollTrace \o ReadTrace(chunk)
    /\ UNCHANGED << cfgvars, got, pc, running, exit_status, tv, acqvars, written, lnvars,
                    ignored, echo, lines, err >>

(***************************************************************************)
(* ser_readline, lines 249-268, for one byte of the buffer: return         *)
(* buf[pos++] (line 240), drop it if it is a CR, else store it and test    *)
(* the line against the prompt.                                            *)
(***************************************************************************)
\* a bug Skipped could have: the CR is kept
SkippedNever(c) == FALSE

\* c == '\r', the inner loop's condition
Skipped(c) == c = CR

\* a bug LineFull could have: no room left for the terminator
LineFullLate(l) == Len(l) >= LINE_SIZE

\* n >= sizeof(line) - 1
LineFull(l) == Len(l) >= LINE_SIZE - 1

\* a bug PromptSeen could have: the prompt is looked for in whole lines only
PromptSeenAtEnd(l) == Last(l) = LF /\ regexec(regex_prompt, l) = 0

\* !regexec(&regex_prompt, line, 0, NULL, 0)
PromptSeen(l) == regexec(regex_prompt, l) = 0

\* a bug EndOfLine could have: a NUL ends the line too
EndOfLineOrNul(c) == c = LF \/ c = NUL

\* c == '\n', the end of the outer loop
EndOfLine(c) == c = LF

ser_readline_byte ==
    /\ Reading /\ ~NeedRefill
    /\ LET c == buf[pos + 1]
       IN  /\ pos' = pos + 1
           /\ call' = Kept(call, Append(call, c))
           /\ got' = Kept(got, Append(got, c))
           /\ IF Skipped(c)
              THEN UNCHANGED << line, ret, out, err, running, exit_status >>
              ELSE IF LineFull(line)
              THEN /\ Die("Line too long")
                   /\ UNCHANGED << line, ret, out >>
              ELSE /\ line' = Append(line, c)
                   /\ IF PromptSeen(line')
                      THEN /\ out' = out \o pr_debug("Prompt seen, end of data", << >>)
                           /\ ret' = "NULL"
                      ELSE /\ out' = out
                           /\ ret' = IF EndOfLine(c) THEN "line" ELSE "none"
                   /\ UNCHANGED << err, running, exit_status >>
    /\ UNCHANGED << cfgvars, pc, now, tv, acqvars, written, buf, n, rxcount, rx, device, ignored, echo, lines >>

(***************************************************************************)
(* main, lines 383-396: what the echo loop does with ser_readline's        *)
(* result.                                                                 *)
(***************************************************************************)
\* cmd without the newline join_words appends: the words joined by spaces
CmdWords == SubSeq(cmd, 1, Len(cmd) - 1)

\* a bug IsEcho could have: the newline of the command is not looked for
IsEchoOfWords == ret = "line" /\ strstr(line, CmdWords)

\* a bug IsEcho could have: the text left by a call that returned NULL is searched
IsEchoOfText == ret # "none" /\ strstr(line, cmd)

\* line && strstr(line, cmd)
IsEcho == ret = "line" /\ strstr(line, cmd)

NewCall ==
    /\ line' = << >>
    /\ call' = << >>
    /\ ret' = "none"

main_echo ==
    /\ running /\ pc = "echo" /\ ret # "none"
    /\ IF IsEcho
       THEN /\ out' = out \o pr_debug("Command echo found.", << >>)
            /\ tv' \in timeout_init(tv)
            /\ pc' = "resp"
            /\ echo' = call
            /\ NewCall
            /\ UNCHANGED << ignored, err, running, exit_status >>
       ELSE IF ret = "NULL" \/ timed_out(tv)
       THEN /\ Die("Command echo not found")
            /\ UNCHANGED << out, tv, pc, lnvars, ignored, echo >>
       ELSE /\ out' = out \o pr_debug("Ignoring", CStr(line))
            /\ ignored' = Append(ignored, line)
            /\ NewCall
            /\ UNCHANGED << tv, pc, echo, err, running, exit_status >>
    /\ UNCHANGED << cfgvars, got, now, acqvars, written, rdvars, device, lines >>

(***************************************************************************)
(* main, lines 398-413: what the response loop does with ser_readline's    *)
(* result.                                                                 *)
(***************************************************************************)
main_resp ==
    /\ running /\ pc = "resp" /\ ret # "none"
    /\ IF ret = "NULL"
       THEN /\ nfds' = nfds - 1
            /\ tty' = "closed"
            /\ running' = FALSE
            /\ exit_status' = 0
            /\ pc' = "done"
            /\ UNCHANGED << out, err, lnvars, lines >>
       ELSE IF timed_out(tv)
       THEN /\ Die("Response too long")
            /\ UNCHANGED << out, pc, nfds, tty, lnvars, lines >>
       ELSE /\ out' = Append(out, Text(line))
            /\ lines' = Append(lines, line)
            /\ NewCall
            /\ UNCHANGED << pc, nfds, tty, err, running, exit_status >>
    /\ UNCHANGED << cfgvars, got, now, tv, cap_dropped, errno, attempts, flocks,
                    retry_budget, written, rdvars, device, ignored, echo >>

Acquire ==
    \/ ser_open_begin
    \/ ser_open_loop
    \/ ser_open_usleep
    \/ ser_open_config

Next ==
    \/ Acquire
    \/ main_write
    \/ ser_getc_poll_error
    \/ ser_getc_timeout
    \/ ser_getc_read_fails
    \/ ser_getc_refill
    \/ ser_readline_byte
    \/ main_echo
    \/ main_resp

Spec == Init /\ [][Next]_vars

(***************************************************************************)
(* timeout_init alone: every budget around the edge of int, at clock       *)
(* readings spread over a second.  The clock advances before ser_open      *)
(* starts the first deadline.                                              *)
(***************************************************************************)
Budgets ==
    {1, TimeoutMs, (INT_MAX \div 1000) - 1000, INT_MAX \div 1000,
     (INT_MAX \div 1000) + 1, 2 * (INT_MAX \div 1000)}

InitDeadline ==
    Start(Budgets, {0}, {FALSE}, {DEFAULT_PROMPT}, {<< <<LA>> >>}, 0,
          Device(TextByte, 0, 0))

\* time passes between the start of the program and the call of ser_open
elapse ==
    /\ running /\ pc = "ser_open"
    /\ now < Clock0 + MaxTicks * ClockStepUs
    /\ now' = now + ClockStepUs
    /\ UNCHANGED << cfgvars, got, pc, running, exit_status, tv, acqvars, written,
                    rdvars, device, lnvars, ignored, echo, lines, out, err >>

SpecDeadline == InitDeadline /\ [][elapse \/ ser_open_begin]_vars

(***************************************************************************)
(* The runs against a device that never stops sending, with a positive     *)
(* timeout budget.  The process is always scheduled again and the device   *)
(* always sends again: whatever step is possible is eventually taken.  The *)
(* retries explored are as many as fit in the budget, so that the          *)
(* acquisition ends by itself.                                             *)
(***************************************************************************)
InitLive ==
    Start({TimeoutMs}, {0}, {FALSE}, {DEFAULT_PROMPT}, {<< <<LA>> >>},
          TimeoutMs \div RETRY_MS + 1, EndlessDevice({CR, LF, LA}))

SpecLive == InitLive /\ [][Next]_vars /\ WF_vars(Next)

\* the acquisition alone, with more busy retries
InitAcq ==
    Start({-1, 0, TimeoutMs}, 0..MaxDebug, BOOLEAN, Prompts, Commands, MaxRetriesAcq,
          Device(TextByte, 0, 0))

SpecAcq == InitAcq /\ [][Acquire]_vars

(***************************************************************************)
(*                              The claims                                 *)
(***************************************************************************)
NotCR(c) == c # CR

\* the bytes of the running call that are no carriage returns
Retained == SelectSeq(call, NotCR)

\* the first k retained bytes match the prompt
PrefixMatches(k) == regexec(regex_prompt, SubSeq(Retained, 1, k)) = 0

MaxLine == LINE_SIZE - 1

Exited == ~running

Diagnostic == IF err = << >> THEN "" ELSE Last(err)

IsLineEntry(e) == e.kind = "line"

\* what standard output holds of response lines
Printed == SelectSeq(out, IsLineEntry)

\* standard output holding exactly the lines, each whole
Verbatim(ls) == [i \in 1..Len(ls) |-> [kind |-> "line", msg |-> "%s", text |-> ls[i]]]

\* the deadline tv, in microseconds
DeadlineUs == tv.tv_sec * 1000000 + tv.tv_usec

(***************************************************************************)
(* C1: with a timeout budget <= 0 (zero as well as negative) no operation  *)
(* fails with a timeout error: not the acquisition, not the readability    *)
(* wait of ser_getc, not the echo loop, not the response loop.             *)
(* Violated: poll(&pfd, 1, 0) returns at once and ser_getc dies of         *)
(* "Timeout".                                                              *)
(***************************************************************************)
C1_NoTimeoutWhenDisabled ==
    opt_timeout <= 0 =>
        \A i \in 1..Len(err) :
            /\ err[i] # "Timeout"
            /\ err[i] # "Response too long"
            /\ err[i] = "Command echo not found" => ret = "NULL"
            /\ err[i] = "Failed to open" => NotBusy(errno)

C8_LineTooLong ==
    /\ Len(line) <= MaxLine
    /\ Len(Retained) <= MaxLine + 1
    /\ Len(Retained) > MaxLine <=>
          (Exited /\ exit_status # 0 /\ Diagnostic = "Line too long")
    /\ Diagnostic = "Line too long" => Printed = Verbatim(lines)
    /\ \A i \in 1..Len(lines) : Len(lines[i]) <= MaxLine

\* a response line is too long, after a response line that was printed
C8_Witness ==
    /\ pc = "resp" /\ Diagnostic = "Line too long"
    /\ Len(Retained) = MaxLine + 1
    /\ Printed # << >>

(***************************************************************************)
(* C9 as stated: a completed line is returned with its newline as last     *)
(* byte, and PromptReached is never reported on a newline byte.            *)
(* Violated: the prompt ">." matches the line ">" newline.                 *)
(***************************************************************************)
C9_PromptNeverOnNewline ==
    /\ ret = "line" => Last(line) = LF
    /\ ret = "NULL" => Last(line) # LF

(***************************************************************************)
(* C9 amended: a completed line is returned with its newline as last byte  *)
(* and holds no other newline; PromptReached is reported on a newline byte *)
(* only when the text ending in that newline matches the pattern, which    *)
(* the default prompt never does.                                          *)
(***************************************************************************)
C9_NewlineKept ==
    /\ ret = "line" =>
          /\ line # << >> /\ Last(line) = LF /\ Last(call) = LF
          /\ \A i \in 1..(Len(line) - 1) : line[i] # LF
    /\ (ret = "NULL" /\ Last(call) = LF) =>
          /\ regex_prompt # DEFAULT_PROMPT
          /\ PrefixMatches(Len(Retained))
    /\ (ret = "NULL" /\ regex_prompt = DEFAULT_PROMPT) => Last(line) = SP

\* the prompt is reached on a newline
C9_Witness ==
    /\ ret = "NULL"
    /\ Last(call) = LF
    /\ regex_prompt = GT_DOT_PROMPT

(***************************************************************************)
(* C10: carriage returns are never stored: the line under construction     *)
(* and every line returned is the call's bytes without the CRs, so no CR   *)
(* is in the text tested against the prompt, and CRs do not count toward   *)
(* the maximum line length.                                                *)
(***************************************************************************)
C10_CRNeverStored ==
    /\ \A i \in 1..Len(line) : line[i] # CR
    /\ \A i \in 1..Len(lines) : \A j \in 1..Len(lines[i]) : lines[i][j] # CR
    /\ Diagnostic # "Line too long" => line = Retained
    /\ Diagnostic = "Line too long" =>
          /\ Len(Retained) > MaxLine
          /\ line = SubSeq(Retained, 1, MaxLine)

\* a line is returned of a call that read more bytes than a line may hold
C10_Witness ==
    /\ ret = "line"
    /\ Len(call) > MaxLine
    /\ Len(line) < Len(call)

(***************************************************************************)
(* C3: when the device answers with the command as its first line, then    *)
(* response lines, then the prompt, the run ends with exit status 0 and    *)
(* standard output is exactly the response lines.                          *)
(* Violated: with -d the trace lines are on standard output too, and a     *)
(* response line is printed up to its first NUL byte only (see C4).        *)
(***************************************************************************)
C3_RoundTrip ==
    (pc = "done" /\ ignored = << >> /\ echo = cmd /\ lines # << >>) =>
        /\ exit_status = 0
        /\ out = Verbatim(lines)

(***************************************************************************)
(* C4: on every successful run, whatever the debug level, standard output  *)
(* holds exactly the completed response lines, each whole, in the order    *)
(* received, and nothing else.                                             *)
(* Violated: pr_debug is printf, and printf("%s", line) stops at a NUL.    *)
(***************************************************************************)
C4_StdoutIsResponseLines ==
    (Exited /\ exit_status = 0) => out = Verbatim(lines)

\* diagnostics of failures that are no timeouts and not the echo loop's
EchoWaitOtherErrors == {"Poll error", "No data", "Read error", "Line too long"}

\* the run ended while it waited for the echo
DiedInEchoWait == Exited /\ pc = "echo"

DeviceErrors == {"ENOENT", "ENOLCK"}

DeadlineExpired == opt_timeout > 0 /\ now > DeadlineUs

(***************************************************************************)
(* C6: without -f, a busy device (EBUSY of open, EAGAIN of flock) is       *)
(* retried after the sleep, and the acquisition gives up on it only when   *)
(* a failed attempt finds the deadline expired.                            *)
(* Violated: every attempt that opens the device and fails to lock it      *)
(* leaves its descriptor open (C20), so open ends up failing with EMFILE   *)
(* while the device is busy and before any deadline.                       *)
(***************************************************************************)
C6_RetryUntilDeadline ==
    ~opt_force =>
        /\ pc = "usleep" => errno \in {"EBUSY", "EAGAIN"}
        /\ (Exited /\ pc = "open") => (errno \in DeviceErrors \/ DeadlineExpired)

(***************************************************************************)
(* C7 as stated: with -f the acquisition succeeds on the first attempt,    *)
(* without a retry sleep, the lock being never attempted and the           *)
(* capability drop skipped.                                                *)
(* Violated: open reports EBUSY (the device is in exclusive mode and the   *)
(* process has no CAP_SYS_ADMIN) and the loop sleeps and retries.          *)
(***************************************************************************)
C7_ForceSucceedsAtOnce ==
    opt_force =>
        /\ flocks = 0 /\ ~cap_dropped
        /\ pc # "usleep"
        /\ attempts <= 1

(***************************************************************************)
(* C7 amended: with -f the lock is never attempted and the capability     *)
(* drop is skipped, and the loop is left on the first attempt whose open   *)
(* succeeds, no descriptor being left behind; an open that reports EBUSY   *)
(* is retried after the sleep as without -f, and nothing else is.          *)
(***************************************************************************)
C7_ForceSkipsLock ==
    opt_force =>
        /\ flocks = 0 /\ ~cap_dropped
        /\ nfds <= 1
        /\ nfds = 1 <=> tty # "closed"
        /\ pc = "usleep" => (errno = "EBUSY" /\ nfds = 0)

\* with -f the device is acquired at the first attempt
C7_Witness ==
    /\ opt_force
    /\ pc = "config"
    /\ attempts = 1

\* the acquisition has completed: the device is open, locked unless -f,
\* in exclusive and raw mode, flushed
Acquired == tty = "raw" /\ nfds >= 1 /\ (opt_force \/ flocks >= 1)

\* the echo call's bytes without the carriage returns: the echo line
EchoLine == SelectSeq(echo, NotCR)

(***************************************************************************)
(* C11: the phases happen in program order.  write() is not called before  *)
(* the acquisition has completed; no byte is read before write() returned  *)
(* the full length, a short write or a write error ending the run non-zero *)
(* with nothing read; no response line is returned or printed before a     *)
(* line containing the command has been recognized as the echo.            *)
(***************************************************************************)
C11_ProgramOrder ==
    /\ written # -2 => (Acquired \/ pc = "done")
    /\ (Len(buf) > 0 \/ rxcount > 0 \/ call # << >>) => written = len
    /\ (written # -2 /\ written < len) =>
          /\ Exited /\ exit_status # 0 /\ pc = "write"
          /\ Diagnostic = IF written < 0 THEN "Write error" ELSE "Short write"
          /\ rxcount = 0 /\ out = SelectSeq(out, LAMBDA e : e.kind = "debug")
    /\ pc \in {"echo", "resp", "done"} => written = len
    /\ (lines # << >> \/ Printed # << >> \/ pc \in {"resp", "done"}) =>
          /\ echo # << >>
          /\ strstr(EchoLine, cmd)

\* a response line is printed: every phase before has completed
C11_Witness ==
    /\ Printed # << >>
    /\ written = len
    /\ Acquired
    /\ echo # << >>

(***************************************************************************)
(* C13: the echo loop is never left for the response loop on a line that   *)
(* ser_readline returned after the echo deadline had expired.              *)
(* Violated: strstr(line, cmd) is tested before timed_out(&tv), so a line  *)
(* that contains the command leaves the loop however late it is.           *)
(***************************************************************************)
C13_NoLateEcho ==
    [][(pc = "echo" /\ pc' = "resp") => ~DeadlineExpired]_vars

\* s ends with t
EndsWith(s, t) == Len(s) >= Len(t) /\ SubSeq(s, Len(s) - Len(t) + 1, Len(s)) = t

\* the line contains the command words, their newline left aside
HasWords(l) == strstr(l, CmdWords)

(***************************************************************************)
(* C14 as stated: in the echo loop a returned line is taken as the echo    *)
(* if and only if it contains the command words joined by spaces, the      *)
(* newline of the command left aside; every other line is discarded and    *)
(* never printed.                                                          *)
(* Violated: the line "a>" newline contains the command "a" and is         *)
(* discarded, the needle of strstr being the command with its newline.     *)
(***************************************************************************)
C14_EchoIffContainsWords ==
    /\ echo # << >> => HasWords(EchoLine)
    /\ \A i \in 1..Len(ignored) : ~HasWords(ignored[i])
    /\ Len(Printed) = Len(lines)

(***************************************************************************)
(* C14 amended: in the echo loop a returned line is taken as the echo if   *)
(* and only if its text (up to a NUL byte, if it holds one) contains the   *)
(* command words joined by spaces followed by the newline, that is, if     *)
(* and only if the line holds no NUL and ends with the command; a line     *)
(* that does not is discarded, or ends the run when the deadline has       *)
(* expired, and no line of the echo loop is printed.                       *)
(***************************************************************************)
C14_EchoIffEndsWithCommand ==
    /\ echo # << >> =>
          /\ EndsWith(EchoLine, cmd)
          /\ \A i \in 1..Len(EchoLine) : EchoLine[i] # NUL
    /\ \A i \in 1..Len(ignored) :
          ~(EndsWith(ignored[i], cmd) /\ \A j \in 1..Len(ignored[i]) : ignored[i][j] # NUL)
    /\ (DiedInEchoWait /\ ret = "line") =>
          ~(EndsWith(line, cmd) /\ \A j \in 1..Len(line) : line[j] # NUL)
    /\ pc = "echo" => (lines = << >> /\ Printed = << >>)
    /\ Len(Printed) = Len(lines)

\* a line that contains the command words was discarded, the echo came later
C14_Witness ==
    /\ pc = "resp"
    /\ \E i \in 1..Len(ignored) : HasWords(ignored[i])
    /\ Len(EchoLine) > Len(cmd)

\* ser_readline returned NULL to the echo loop
PromptInEchoWait == running /\ pc = "echo" /\ ret = "NULL"

(***************************************************************************)
(* C15: when ser_readline reports the prompt (NULL) to the echo loop, the   *)
(* run ends at once, non-zero, with "Command echo not found"; the response *)
(* loop is not entered and nothing is printed, whatever text the call      *)
(* that found the prompt has left in the line buffer.                      *)
(***************************************************************************)
C15_PromptBeforeEcho ==
    [][PromptInEchoWait =>
          /\ ~running' /\ exit_status' # 0
          /\ err' = Append(err, "Command echo not found")
          /\ pc' = "echo"
          /\ out' = out /\ lines' = << >> /\ echo' = << >>]_vars

\* the prompt came first, and the text it ended contains the command
C15_Witness ==
    /\ DiedInEchoWait /\ ret = "NULL"
    /\ Diagnostic = "Command echo not found"
    /\ strstr(line, cmd)
    /\ Printed = << >>

\* ser_readline has returned to the response loop
ResultInResponse == running /\ pc = "resp" /\ ret # "none"

(***************************************************************************)
(* C16: the response loop consults the deadline once per result, after it  *)
(* has the result and before it prints.  A line obtained when the deadline *)
(* has expired is not printed and ends the run non-zero with "Response too *)
(* long"; a line obtained before is printed and the loop goes on; NULL     *)
(* (the prompt) ends the run with status 0 whether the deadline has        *)
(* expired or not.                                                         *)
(***************************************************************************)
C16_ResponseDeadline ==
    [][ResultInResponse =>
          IF ret = "NULL"
          THEN /\ pc' = "done" /\ ~running' /\ exit_status' = 0
               /\ out' = out /\ err' = err
          ELSE IF DeadlineExpired
          THEN /\ ~running' /\ exit_status' # 0
               /\ err' = Append(err, "Response too long")
               /\ out' = out /\ lines' = lines
          ELSE /\ running' /\ pc' = "resp" /\ ret' = "none"
               /\ Len(out') = Len(out) + 1
               /\ Last(out').kind = "line" /\ Last(out').text = CStr(line)
               /\ err' = err]_vars

\* the prompt ends a run whose response deadline has expired, after a line
\* that was printed in time
C16_Witness ==
    /\ pc = "done" /\ exit_status = 0
    /\ DeadlineExpired
    /\ Printed # << >>

\* the retry sleeps taken so far (in the runs of InitAcq)
Sleeps == MaxRetriesAcq - retry_budget

(***************************************************************************)
(* C19: an open or lock failure that is not EBUSY or EAGAIN ends the run   *)
(* at once with "Failed to open": no sleep follows it and no other open,   *)
(* whether the deadline has expired or not.  Only busy failures are        *)
(* retried, one open per sleep; a failure of the configuration steps ends  *)
(* the run as well.                                                        *)
(***************************************************************************)
C19_OnlyBusyRetried ==
    /\ pc = "usleep" => (running /\ errno \in {"EBUSY", "EAGAIN"})
    /\ errno \notin {"0", "EBUSY", "EAGAIN"} =>
          /\ Exited /\ exit_status # 0 /\ pc = "open"
          /\ Diagnostic = "Failed to open"
          /\ Len(err) = 1
    /\ attempts <= Sleeps + 1
    /\ (pc = "usleep" \/ (Exited /\ pc = "open")) => attempts = Sleeps + 1
    /\ (Exited /\ pc = "config") => (exit_status # 0 /\ Len(err) = 1)

\* a lock failure that is not "busy" ends the run after a retry and before
\* the deadline
C19_Witness ==
    /\ Exited /\ pc = "open"
    /\ errno = "ENOLCK"
    /\ attempts > 1
    /\ opt_timeout > 0 /\ ~DeadlineExpired

(***************************************************************************)
(* C20: the process never holds more than one descriptor on the device,    *)
(* however often the acquisition retries.                                  *)
(* Violated: the descriptor of an attempt whose flock failed is not closed *)
(* before the next open (there is no close in the loop of ser_open).       *)
(***************************************************************************)
C20_OneHandle == nfds <= 1

\* the bytes of the buffer that ser_getc has not returned yet
Unread == SubSeq(buf, pos + 1, n)

(***************************************************************************)
(* C17: ser_getc reads from the device only when its cursor has reached    *)
(* the valid length, 0 <= pos <= n <= BUF_SIZE throughout, so the bytes    *)
(* it has returned, followed by the bytes still in its buffer, are the     *)
(* chunks read from the device in order: no byte is lost, duplicated or    *)
(* reordered, and what a chunk holds after the echo line goes to the       *)
(* response loop.                                                          *)
(***************************************************************************)
C17_ByteStream ==
    /\ 0 <= pos /\ pos <= n /\ n <= BUF_SIZE
    /\ Len(buf) = n
    /\ got \o Unread = rx
    /\ Len(rx) = rxcount
    /\ pc \in {"resp", "done"} => Len(got) >= Len(echo)

\* the response loop was given a byte of a chunk that was read in the echo loop
C17_Witness ==
    /\ pc = "resp" /\ lines = << >>
    /\ call # << >>
    /\ Len(call) < pos
    /\ got = rx

(***************************************************************************)
(* C18: for every positive budget and every clock reading, timeout_init    *)
(* leaves in tv the time now + budget: the seconds carry the overflow of   *)
(* the microseconds, which stay within 0..999999.                          *)
(* Violated: opt_timeout * 1000 is an int product, which overflows for a   *)
(* budget above INT_MAX / 1000, and the sum is passed to div(), whose      *)
(* parameters are ints, so that a sum above INT_MAX is truncated.          *)
(***************************************************************************)
C18_DeadlineExact ==
    (pc = "open" /\ opt_timeout > 0) =>
        /\ DeadlineUs = now + opt_timeout * 1000
        /\ tv.tv_usec \in 0..999999

(***************************************************************************)
(* C12: with a positive timeout budget every run ends, whatever the device *)
(* sends and for however long.                                             *)
(* Violated: ser_readline consults no deadline, and its inner loop drops   *)
(* carriage returns without completing a line, so a device that keeps      *)
(* sending carriage returns, each chunk within the wait of poll, keeps the *)
(* run in ser_readline for ever.                                           *)
(***************************************************************************)
C12_Terminates == <>Exited

=============================================================================
